---- MODULE Spec2Model ----
(***************************************************************************)
(* Hospital data curation: the cleaning engine (src/src/data_cleaner.py),  *)
(* the validation engine (src/src/validators.py) and the helpers of        *)
(* src/src/utils.py, as a state machine over tabular record sets.          *)
(*                                                                         *)
(* A cell is a record [k, s, n]: k is the kind of value, s its characters  *)
(* when it is text, n its number (a day count for dates and timestamps).   *)
(* A frame is [cols, obj, rows]: the set of column names, the columns      *)
(* whose dtype is object (the only ones with a .str accessor), and the     *)
(* sequence of rows, each row a function from cols to cells.               *)
(***************************************************************************)
EXTENDS Integers, Sequences, FiniteSets, TLC

VARIABLES
    kind,               \* which dataset the session works on
    arg,                \* the frame object the caller passed to the last cleaning call (as it is now)
    argBefore,          \* ghost: the same frame as it was when that call started
    df,                 \* the frame the caller currently holds (raw input, then each call's return value)
    aliased,            \* TRUE when the last cleaning call returned the very object it was given
    cleaning_report,    \* DataCleaner.cleaning_report
    validation_results, \* DataValidator.validation_results
    raised,             \* the exception that propagated out of the last call, or "none"
    report_text,        \* what generate_validation_report returned
    last,               \* the last operation called
    x, y                \* input and output of the pure helpers

vars == <<kind, arg, argBefore, df, aliased, cleaning_report, validation_results,
          raised, report_text, last, x, y>>

---------------------------------------------------------------------------
(* Bounds of the model *)

MaxRows == 2
MaxCalls == 2
NowDay == 50000

(* config.py *)
MAX_AGE == 120
MIN_AGE == 0
MAX_LOS_DAYS == 365
MIN_LOS_DAYS == 0

---------------------------------------------------------------------------
(* Cells *)

NaN == [k |-> "nan", s |-> <<>>, n |-> 0]
NaT == [k |-> "nat", s |-> <<>>, n |-> 0]
Str(cs) == [k |-> "str", s |-> cs, n |-> 0]
Num(i) == [k |-> "num", s |-> <<>>, n |-> i]
DateText(d) == [k |-> "date", s |-> <<>>, n |-> d]
Ts(d) == [k |-> "ts", s |-> <<>>, n |-> d]
Bool(b) == [k |-> "bool", s |-> <<>>, n |-> IF b THEN 1 ELSE 0]

isna(c) == c.k \in {"nan", "nat"}

NoFrame == [cols |-> {}, obj |-> {}, rows |-> <<>>]

Range(f) == {f[i] : i \in DOMAIN f}

(* df[mask]: the rows whose index is in keep, in order *)
RECURSIVE TakeRows(_, _, _)
TakeRows(rows, keep, i) ==
    IF i > Len(rows) THEN <<>>
    ELSE (IF i \in keep THEN <<rows[i]>> ELSE <<>>) \o TakeRows(rows, keep, i + 1)

Filter(rows, keep) == TakeRows(rows, keep, 1)

(* df[c] = values: assign a column, adding it when absent *)
SetCol(rows, c, values) ==
    [i \in DOMAIN rows |->
        [d \in (DOMAIN rows[i]) \cup {c} |-> IF d = c THEN values[i] ELSE rows[i][d]]]

(* df.duplicated(subset, keep='first'): missing values compare equal *)
duplicated(rows, subset) ==
    {i \in DOMAIN rows : \E j \in 1..(i - 1) : \A c \in subset : rows[j][c] = rows[i][c]}

(* the duplicate mask computed and never applied *)
NotDuplicated_KeepAll(rows, subset) == DOMAIN rows

NotDuplicated(rows, subset) == (DOMAIN rows) \ duplicated(rows, subset)

(* pd.to_datetime(col, errors='coerce') on one cell *)
to_datetime(c) ==
    IF c.k \in {"date", "ts"} THEN Ts(c.n) ELSE NaT

(* comparisons of timestamps: anything compared with NaT is False *)
TsLt(a, b) == a.k = "ts" /\ b.k = "ts" /\ a.n < b.n
TsGt(a, b) == a.k = "ts" /\ b.k = "ts" /\ a.n > b.n

(* comparisons of numbers: anything compared with NaN is False *)
NumLt(a, i) == a.k = "num" /\ a.n < i
NumGt(a, i) == a.k = "num" /\ a.n > i
NumGe(a, i) == a.k = "num" /\ a.n >= i
NumLe(a, i) == a.k = "num" /\ a.n <= i
between(a, lo, hi) == NumGe(a, lo) /\ NumLe(a, hi)

ReportEntry_NoRemoved(dataset, initial_rows, final_rows) ==
    [dataset |-> dataset, initial_rows |-> initial_rows, final_rows |-> final_rows,
     removed_rows |-> 0]

ReportEntry(dataset, initial_rows, final_rows) ==
    [dataset |-> dataset, initial_rows |-> initial_rows, final_rows |-> final_rows,
     removed_rows |-> initial_rows - final_rows]

---------------------------------------------------------------------------
(* utils.py: calculate_age.  (reference_date - dob).dt.days / 365.25, then *)
(* astype(int), which truncates toward zero; 365.25 = 1461/4 exactly.      *)

Trunc4(days) ==
    IF days >= 0 THEN (days * 4) \div 1461 ELSE 0 - (((0 - days) * 4) \div 1461)

calculate_age(dob, reference_date) ==
    IF dob.k = "ts" THEN Num(Trunc4(reference_date - dob.n)) ELSE NaN

(* astype(int) raises ValueError when the float series holds a NaN *)
astype_int_raises(ages) == \E i \in DOMAIN ages : isna(ages[i])

---------------------------------------------------------------------------
(* DataCleaner.clean_visits_data *)

los_days(r) ==
    IF r.discharge_date.k = "ts" /\ r.admission_date.k = "ts"
    THEN Num(r.discharge_date.n - r.admission_date.n) ELSE NaN

invalid_los(r) ==
    NumLt(r.length_of_stay, MIN_LOS_DAYS) \/ NumGt(r.length_of_stay, MAX_LOS_DAYS)

(* clean_visits_data with length_of_stay computed only when the input has none *)
clean_visits_data_TrustRawLos(f) ==
    LET initial_rows == Len(f.rows)
        both == {"admission_date", "discharge_date"} \subseteq f.cols
        p1 == IF "admission_date" \in f.cols
              THEN SetCol(f.rows, "admission_date",
                          [i \in DOMAIN f.rows |-> to_datetime(f.rows[i].admission_date)])
              ELSE f.rows
        p2 == IF "discharge_date" \in f.cols
              THEN SetCol(p1, "discharge_date",
                          [i \in DOMAIN p1 |-> to_datetime(p1[i].discharge_date)])
              ELSE p1
        r3 == IF both
              THEN Filter(p2, {i \in DOMAIN p2 : ~TsLt(p2[i].discharge_date, p2[i].admission_date)})
              ELSE p2
        r4 == IF both /\ "length_of_stay" \notin f.cols
              THEN SetCol(r3, "length_of_stay", [i \in DOMAIN r3 |-> los_days(r3[i])])
              ELSE r3
        r5 == IF both THEN Filter(r4, {i \in DOMAIN r4 : ~invalid_los(r4[i])}) ELSE r4
        r6 == IF "visit_id" \in f.cols THEN Filter(r5, NotDuplicated(r5, {"visit_id"})) ELSE r5
        cols6 == IF both THEN f.cols \cup {"length_of_stay"} ELSE f.cols
    IN  [raised |-> "none",
         arg |-> [f EXCEPT !.rows = p2],
         ret |-> [cols |-> cols6, obj |-> f.obj, rows |-> r6],
         aliased |-> ~both /\ "visit_id" \notin f.cols,
         entry |-> ReportEntry("visits", initial_rows, Len(r6))]

clean_visits_data(f) ==
    LET initial_rows == Len(f.rows)
        both == {"admission_date", "discharge_date"} \subseteq f.cols
        p1 == IF "admission_date" \in f.cols
              THEN SetCol(f.rows, "admission_date",
                          [i \in DOMAIN f.rows |-> to_datetime(f.rows[i].admission_date)])
              ELSE f.rows
        p2 == IF "discharge_date" \in f.cols
              THEN SetCol(p1, "discharge_date",
                          [i \in DOMAIN p1 |-> to_datetime(p1[i].discharge_date)])
              ELSE p1
        r3 == IF both
              THEN Filter(p2, {i \in DOMAIN p2 : ~TsLt(p2[i].discharge_date, p2[i].admission_date)})
              ELSE p2
        r4 == IF both THEN SetCol(r3, "length_of_stay", [i \in DOMAIN r3 |-> los_days(r3[i])]) ELSE r3
        r5 == IF both THEN Filter(r4, {i \in DOMAIN r4 : ~invalid_los(r4[i])}) ELSE r4
        r6 == IF "visit_id" \in f.cols THEN Filter(r5, NotDuplicated(r5, {"visit_id"})) ELSE r5
        cols6 == IF both THEN f.cols \cup {"length_of_stay"} ELSE f.cols
    IN  [raised |-> "none",
         arg |-> [f EXCEPT !.rows = p2],
         ret |-> [cols |-> cols6, obj |-> f.obj, rows |-> r6],
         aliased |-> ~both /\ "visit_id" \notin f.cols,
         entry |-> ReportEntry("visits", initial_rows, Len(r6))]

---------------------------------------------------------------------------
(* DataCleaner.clean_patients_data and its helpers *)

Unknown == Str(<<"U", "n", "k", "n", "o", "w", "n">>)
Male == Str(<<"M", "a", "l", "e">>)
Female == Str(<<"F", "e", "m", "a", "l", "e">>)
Other == Str(<<"O", "t", "h", "e", "r">>)

(* the dict of _standardize_gender; Series.map gives NaN for a key not in it *)
gender_mapping(c) ==
    IF c.k # "str" THEN NaN
    ELSE IF c.s \in {<<"M">>, <<"m">>, <<"m", "a", "l", "e">>, <<"M", "A", "L", "E">>} THEN Male
    ELSE IF c.s \in {<<"F">>, <<"f">>, <<"f", "e", "m", "a", "l", "e">>,
                     <<"F", "E", "M", "A", "L", "E">>} THEN Female
    ELSE IF c.s \in {<<"O">>, <<"o">>, <<"o", "t", "h", "e", "r">>,
                     <<"O", "T", "H", "E", "R">>} THEN Other
    ELSE NaN

fillna(c, v) == IF isna(c) THEN v ELSE c

_handle_missing_patient_info(rows, cols) ==
    IF "gender" \in cols
    THEN SetCol(rows, "gender", [i \in DOMAIN rows |-> fillna(rows[i].gender, Unknown)])
    ELSE rows

_standardize_gender(rows, cols) ==
    IF "gender" \in cols
    THEN SetCol(rows, "gender",
                [i \in DOMAIN rows |-> fillna(gender_mapping(rows[i].gender), Unknown)])
    ELSE rows

(* the in-place part of _clean_date_of_birth: the column is parsed *)
_parse_date_of_birth(rows, cols) ==
    IF "date_of_birth" \in cols
    THEN SetCol(rows, "date_of_birth",
                [i \in DOMAIN rows |-> to_datetime(rows[i].date_of_birth)])
    ELSE rows

(* the rows _clean_date_of_birth keeps: not in the future *)
_clean_date_of_birth(rows, cols, now) ==
    IF "date_of_birth" \in cols
    THEN Filter(rows, {i \in DOMAIN rows : ~TsGt(rows[i].date_of_birth, Ts(now))})
    ELSE rows

(* the age filter without its upper bound *)
valid_age_NoUpperBound(r) == NumGe(r.age, MIN_AGE)

valid_age(r) == NumGe(r.age, MIN_AGE) /\ NumLe(r.age, MAX_AGE)

(* _remove_duplicate_patients with keep='last' *)
_remove_duplicate_patients_KeepLast(rows, cols) ==
    IF "patient_id" \in cols
    THEN Filter(rows, {i \in DOMAIN rows :
                          \A j \in (i + 1)..Len(rows) : rows[j].patient_id # rows[i].patient_id})
    ELSE rows

_remove_duplicate_patients(rows, cols) ==
    IF "patient_id" \in cols THEN Filter(rows, NotDuplicated(rows, {"patient_id"})) ELSE rows

clean_patients_data(f, now) ==
    LET initial_rows == Len(f.rows)
        hasDob == "date_of_birth" \in f.cols
        g1 == _handle_missing_patient_info(f.rows, f.cols)
        g2 == _standardize_gender(g1, f.cols)
        d1 == _parse_date_of_birth(g2, f.cols)
        d2 == _clean_date_of_birth(d1, f.cols, now)
        ages == [i \in DOMAIN d2 |-> calculate_age(to_datetime(d2[i].date_of_birth), now)]
        fails == hasDob /\ astype_int_raises(ages)
        a1 == IF hasDob THEN SetCol(d2, "age", ages) ELSE d2
        a2 == IF hasDob THEN Filter(a1, {i \in DOMAIN a1 : valid_age(a1[i])}) ELSE a1
        u1 == _remove_duplicate_patients(a2, f.cols)
        cols1 == IF hasDob THEN f.cols \cup {"age"} ELSE f.cols
    IN  IF fails
        THEN [raised |-> "ValueError",
              arg |-> [f EXCEPT !.rows = d1],
              ret |-> NoFrame,
              aliased |-> FALSE,
              entry |-> ReportEntry("patients", initial_rows, 0)]
        ELSE [raised |-> "none",
              arg |-> [f EXCEPT !.rows = d1],
              ret |-> [cols |-> cols1, obj |-> f.obj, rows |-> u1],
              aliased |-> ~hasDob /\ "patient_id" \notin f.cols,
              entry |-> ReportEntry("patients", initial_rows, Len(u1))]

---------------------------------------------------------------------------
(* Text: a string is a sequence of one-character strings *)

Uppers == <<"A", "B", "C", "D", "E", "F", "G", "H", "I", "J", "K", "L", "M",
            "N", "O", "P", "Q", "R", "S", "T", "U", "V", "W", "X", "Y", "Z">>
Lowers == <<"a", "b", "c", "d", "e", "f", "g", "h", "i", "j", "k", "l", "m",
            "n", "o", "p", "q", "r", "s", "t", "u", "v", "w", "x", "y", "z">>
Digits == {"0", "1", "2", "3", "4", "5", "6", "7", "8", "9"}
Spaces == {" ", "\t", "\n"}

IsUpper(c) == c \in Range(Uppers)
IsLower(c) == c \in Range(Lowers)
IsLetter(c) == IsUpper(c) \/ IsLower(c)

UpperChar(c) ==
    IF IsLower(c) THEN Uppers[CHOOSE i \in DOMAIN Lowers : Lowers[i] = c] ELSE c
LowerChar(c) ==
    IF IsUpper(c) THEN Lowers[CHOOSE i \in DOMAIN Uppers : Uppers[i] = c] ELSE c

(* str.upper, str.lower *)
upper(s) == [i \in DOMAIN s |-> UpperChar(s[i])]
lower(s) == [i \in DOMAIN s |-> LowerChar(s[i])]

(* str.title: a letter is upper-cased after a non-letter, lower-cased after a letter *)
title(s) ==
    [i \in DOMAIN s |->
        IF i > 1 /\ IsLetter(s[i - 1]) THEN LowerChar(s[i]) ELSE UpperChar(s[i])]

(* str.strip *)
RECURSIVE lstrip(_)
lstrip(s) == IF s # <<>> /\ Head(s) \in Spaces THEN lstrip(Tail(s)) ELSE s
RECURSIVE rstrip(_)
rstrip(s) ==
    IF s # <<>> /\ s[Len(s)] \in Spaces THEN rstrip(SubSeq(s, 1, Len(s) - 1)) ELSE s
strip(s) == rstrip(lstrip(s))

(* Series.str.strip/upper/title on one cell: NaN for a cell that is not a string *)
str_strip(c) == IF c.k = "str" THEN Str(strip(c.s)) ELSE NaN
str_upper(c) == IF c.k = "str" THEN Str(upper(c.s)) ELSE NaN
str_title(c) == IF c.k = "str" THEN Str(title(c.s)) ELSE NaN

(* Series.astype(str) on one cell: a missing value becomes the text 'nan' *)
astype_str(c) == IF c.k = "str" THEN c ELSE Str(<<"n", "a", "n">>)

---------------------------------------------------------------------------
(* config.py ICD10_PATTERN and utils.py validate_icd10_code *)

IsAlnumUpper(c) == c \in Digits \/ IsUpper(c)

(* ^[A-Z][0-9][0-9A-Z](\.[0-9A-Z]{1,4})?$ with the anchors taken as whole-string *)
ICD10_FULL(s) ==
    /\ Len(s) >= 3
    /\ IsUpper(s[1])
    /\ s[2] \in Digits
    /\ IsAlnumUpper(s[3])
    /\ \/ Len(s) = 3
       \/ /\ Len(s) \in 5..8
          /\ s[4] = "."
          /\ \A i \in 5..Len(s) : IsAlnumUpper(s[i])

(* re.match(ICD10_PATTERN, s): $ also matches just before one trailing newline *)
ICD10_PATTERN(s) ==
    \/ ICD10_FULL(s)
    \/ s # <<>> /\ s[Len(s)] = "\n" /\ ICD10_FULL(SubSeq(s, 1, Len(s) - 1))

validate_icd10_code(c) ==
    IF isna(c) THEN FALSE ELSE ICD10_PATTERN(c.s)

---------------------------------------------------------------------------
(* DataCleaner.clean_diagnoses_data *)

(* clean_diagnoses_data with the rows of invalid codes dropped instead of flagged *)
clean_diagnoses_data_DropInvalid(f) ==
    LET initial_rows == Len(f.rows)
        hasIcd == "icd_code" \in f.cols
        both == {"visit_id", "icd_code"} \subseteq f.cols
        n1 == IF hasIcd
              THEN SetCol(f.rows, "icd_code",
                          [i \in DOMAIN f.rows |->
                              str_upper(str_strip(astype_str(f.rows[i].icd_code)))])
              ELSE f.rows
        n2 == IF hasIcd
              THEN SetCol(n1, "icd_code_valid",
                          [i \in DOMAIN n1 |-> Bool(validate_icd10_code(n1[i].icd_code))])
              ELSE n1
        n3 == IF hasIcd
              THEN Filter(n2, {i \in DOMAIN n2 : n2[i].icd_code_valid = Bool(TRUE)})
              ELSE n2
        cols2 == IF hasIcd THEN f.cols \cup {"icd_code_valid"} ELSE f.cols
        obj2 == IF hasIcd THEN f.obj \cup {"icd_code"} ELSE f.obj
        u1 == IF both THEN Filter(n3, NotDuplicated(n3, {"visit_id", "icd_code"})) ELSE n3
    IN  [raised |-> "none",
         arg |-> [cols |-> cols2, obj |-> obj2, rows |-> n2],
         ret |-> [cols |-> cols2, obj |-> obj2, rows |-> u1],
         aliased |-> FALSE,
         entry |-> ReportEntry("diagnoses", initial_rows, Len(u1))]

(* clean_diagnoses_data with the duplicates dropped before the codes are normalized *)
clean_diagnoses_data_DedupeFirst(f) ==
    LET initial_rows == Len(f.rows)
        hasIcd == "icd_code" \in f.cols
        both == {"visit_id", "icd_code"} \subseteq f.cols
        u1 == IF both THEN Filter(f.rows, NotDuplicated(f.rows, {"visit_id", "icd_code"})) ELSE f.rows
        n1 == IF hasIcd
              THEN SetCol(u1, "icd_code",
                          [i \in DOMAIN u1 |-> str_upper(str_strip(astype_str(u1[i].icd_code)))])
              ELSE u1
        n2 == IF hasIcd
              THEN SetCol(n1, "icd_code_valid",
                          [i \in DOMAIN n1 |-> Bool(validate_icd10_code(n1[i].icd_code))])
              ELSE n1
        cols2 == IF hasIcd THEN f.cols \cup {"icd_code_valid"} ELSE f.cols
        obj2 == IF hasIcd THEN f.obj \cup {"icd_code"} ELSE f.obj
    IN  [raised |-> "none",
         arg |-> f,
         ret |-> [cols |-> cols2, obj |-> obj2, rows |-> n2],
         aliased |-> FALSE,
         entry |-> ReportEntry("diagnoses", initial_rows, Len(n2))]

clean_diagnoses_data(f) ==
    LET initial_rows == Len(f.rows)
        hasIcd == "icd_code" \in f.cols
        both == {"visit_id", "icd_code"} \subseteq f.cols
        n1 == IF hasIcd
              THEN SetCol(f.rows, "icd_code",
                          [i \in DOMAIN f.rows |->
                              str_upper(str_strip(astype_str(f.rows[i].icd_code)))])
              ELSE f.rows
        n2 == IF hasIcd
              THEN SetCol(n1, "icd_code_valid",
                          [i \in DOMAIN n1 |-> Bool(validate_icd10_code(n1[i].icd_code))])
              ELSE n1
        cols2 == IF hasIcd THEN f.cols \cup {"icd_code_valid"} ELSE f.cols
        obj2 == IF hasIcd THEN f.obj \cup {"icd_code"} ELSE f.obj
        u1 == IF both THEN Filter(n2, NotDuplicated(n2, {"visit_id", "icd_code"})) ELSE n2
    IN  [raised |-> "none",
         arg |-> [cols |-> cols2, obj |-> obj2, rows |-> n2],
         ret |-> [cols |-> cols2, obj |-> obj2, rows |-> u1],
         aliased |-> ~both,
         entry |-> ReportEntry("diagnoses", initial_rows, Len(u1))]

---------------------------------------------------------------------------
(* DataCleaner.clean_medications_data *)

dropna(rows, subset) ==
    Filter(rows, {i \in DOMAIN rows : \A c \in subset : ~isna(rows[i][c])})

clean_medications_data(f) ==
    LET initial_rows == Len(f.rows)
        hasName == "medication_name" \in f.cols
        both == {"visit_id", "medication_name"} \subseteq f.cols
        fails == hasName /\ "medication_name" \notin f.obj
        n1 == IF hasName
              THEN SetCol(f.rows, "medication_name",
                          [i \in DOMAIN f.rows |-> str_title(str_strip(f.rows[i].medication_name))])
              ELSE f.rows
        d1 == dropna(n1, {"visit_id", "medication_name"} \cap f.cols)
        u1 == IF both THEN Filter(d1, NotDuplicated(d1, {"visit_id", "medication_name"})) ELSE d1
    IN  IF fails
        THEN [raised |-> "AttributeError", arg |-> f, ret |-> NoFrame, aliased |-> FALSE,
              entry |-> ReportEntry("medications", initial_rows, 0)]
        ELSE [raised |-> "none",
              arg |-> [f EXCEPT !.rows = n1],
              ret |-> [f EXCEPT !.rows = u1],
              aliased |-> FALSE,
              entry |-> ReportEntry("medications", initial_rows, Len(u1))]

---------------------------------------------------------------------------
(* DataCleaner.clean_staff_data *)

clean_staff_data(f) ==
    LET initial_rows == Len(f.rows)
        hasName == "staff_name" \in f.cols \/ "name" \in f.cols
        name_col == IF "staff_name" \in f.cols THEN "staff_name" ELSE "name"
        fails == hasName /\ name_col \notin f.obj
        n1 == IF hasName
              THEN SetCol(f.rows, name_col,
                          [i \in DOMAIN f.rows |-> str_title(str_strip(f.rows[i][name_col]))])
              ELSE f.rows
        u1 == IF "staff_id" \in f.cols THEN Filter(n1, NotDuplicated(n1, {"staff_id"})) ELSE n1
    IN  IF fails
        THEN [raised |-> "AttributeError", arg |-> f, ret |-> NoFrame, aliased |-> FALSE,
              entry |-> ReportEntry("staff", initial_rows, 0)]
        ELSE [raised |-> "none",
              arg |-> [f EXCEPT !.rows = n1],
              ret |-> [f EXCEPT !.rows = u1],
              aliased |-> "staff_id" \notin f.cols,
              entry |-> ReportEntry("staff", initial_rows, Len(u1))]

---------------------------------------------------------------------------
(* DataValidator: each check is [test, passed, message]; the message of a  *)
(* failed check is the count it states, that of a passed check is "ok".    *)

Check(test, passed, count) ==
    [test |-> test, passed |-> passed,
     message |-> IF passed THEN [ok |-> TRUE, found |-> 0] ELSE [ok |-> FALSE, found |-> count]]

is_unique(rows, c) == duplicated(rows, {c}) = {}

(* element-wise comparison of two date columns as the frame holds them      *)
(* (timestamps, or ISO texts, which order as their days do): False when     *)
(* either side is missing                                                    *)
DateLt(a, b) == a.k = b.k /\ a.k \in {"ts", "date"} /\ a.n < b.n
DateGe(a, b) == a.k = b.k /\ a.k \in {"ts", "date"} /\ a.n >= b.n

(* a boolean mask is the set of row indices where it is True *)
MaskAll(rows, mask) == mask = DOMAIN rows
MaskSum(mask) == Cardinality(mask)

validate_patients(f) ==
    LET c1 == IF "patient_id" \in f.cols
              THEN <<Check("unique_patient_id", is_unique(f.rows, "patient_id"),
                           Cardinality(duplicated(f.rows, {"patient_id"})))>>
              ELSE <<>>
        c2 == IF "age" \in f.cols
              THEN <<Check("valid_age_range",
                           MaskAll(f.rows, {i \in DOMAIN f.rows : between(f.rows[i].age, MIN_AGE, MAX_AGE)}),
                           MaskSum({i \in DOMAIN f.rows : ~between(f.rows[i].age, MIN_AGE, MAX_AGE)}))>>
              ELSE <<>>
        c3 == IF "patient_id" \in f.cols
              THEN <<Check("no_missing_patient_id",
                           MaskAll(f.rows, {i \in DOMAIN f.rows : ~isna(f.rows[i].patient_id)}),
                           MaskSum({i \in DOMAIN f.rows : isna(f.rows[i].patient_id)}))>>
              ELSE <<>>
    IN  [dataset |-> "patients", checks |-> c1 \o c2 \o c3]

validate_visits(f) ==
    LET c1 == IF "visit_id" \in f.cols
              THEN <<Check("unique_visit_id", is_unique(f.rows, "visit_id"),
                           Cardinality(duplicated(f.rows, {"visit_id"})))>>
              ELSE <<>>
        c2 == IF {"admission_date", "discharge_date"} \subseteq f.cols
              THEN <<Check("discharge_after_admission",
                           MaskAll(f.rows, {i \in DOMAIN f.rows : DateGe(f.rows[i].discharge_date, f.rows[i].admission_date)}),
                           MaskSum({i \in DOMAIN f.rows : DateLt(f.rows[i].discharge_date, f.rows[i].admission_date)}))>>
              ELSE <<>>
        c3 == IF "length_of_stay" \in f.cols
              THEN <<Check("valid_length_of_stay",
                           MaskAll(f.rows, {i \in DOMAIN f.rows : between(f.rows[i].length_of_stay, MIN_LOS_DAYS, MAX_LOS_DAYS)}),
                           MaskSum({i \in DOMAIN f.rows : ~between(f.rows[i].length_of_stay, MIN_LOS_DAYS, MAX_LOS_DAYS)}))>>
              ELSE <<>>
    IN  [dataset |-> "visits", checks |-> c1 \o c2 \o c3]

validate_diagnoses(f) ==
    LET c1 == IF "icd_code" \in f.cols
              THEN <<Check("valid_icd10_format",
                           MaskAll(f.rows, {i \in DOMAIN f.rows : validate_icd10_code(f.rows[i].icd_code)}),
                           MaskSum({i \in DOMAIN f.rows : ~validate_icd10_code(f.rows[i].icd_code)}))>>
              ELSE <<>>
        c2 == IF "visit_id" \in f.cols
              THEN <<Check("no_missing_visit_id",
                           MaskAll(f.rows, {i \in DOMAIN f.rows : ~isna(f.rows[i].visit_id)}),
                           MaskSum({i \in DOMAIN f.rows : isna(f.rows[i].visit_id)}))>>
              ELSE <<>>
    IN  [dataset |-> "diagnoses", checks |-> c1 \o c2]

(* generate_validation_report: the counters of its loop *)
RECURSIVE total_checks(_)
total_checks(results) ==
    IF results = <<>> THEN 0 ELSE Len(Head(results).checks) + total_checks(Tail(results))

RECURSIVE passed_checks(_)
passed_checks(results) ==
    IF results = <<>> THEN 0
    ELSE Cardinality({i \in DOMAIN Head(results).checks : Head(results).checks[i].passed})
         + passed_checks(Tail(results))

NoReport == [written |-> FALSE, passed |-> 0, total |-> 0, summary |-> "none"]

generate_validation_report(results) ==
    LET total == total_checks(results)
        passed == passed_checks(results)
    IN  IF total = 0
        THEN [raised |-> "ZeroDivisionError", report |-> NoReport]
        ELSE [raised |-> "none",
              report |-> [written |-> TRUE, passed |-> passed, total |-> total,
                          summary |-> "P/T checks passed (pct%)"]]

---------------------------------------------------------------------------
(* The inputs: every frame of at most MaxRows rows over any subset of a    *)
(* dataset's columns, each cell drawn from the column's set of values.     *)

Kinds == {"patients", "visits", "diagnoses", "medications", "staff"}

MaxAgeDays == ((MAX_AGE + 1) * 1461 - 1) \div 4
AdmissionDay == NowDay - MaxAgeDays

Columns(k) ==
    CASE k = "patients" -> {"patient_id", "gender", "date_of_birth", "age"}
      [] k = "visits" -> {"visit_id", "admission_date", "discharge_date", "length_of_stay"}
      [] k = "diagnoses" -> {"visit_id", "icd_code"}
      [] k = "medications" -> {"visit_id", "medication_name"}
      [] k = "staff" -> {"staff_id", "staff_name", "name"}

Values(k, c) ==
    CASE c \in {"patient_id", "visit_id", "staff_id"} -> {Str(<<"I", "1">>), NaN}
      [] c = "gender" -> {NaN, Str(<<"M">>)}
      [] c = "date_of_birth" ->
            {NaN, Str(<<"x">>), DateText(NowDay + 1), DateText(NowDay - MaxAgeDays),
             DateText(NowDay - MaxAgeDays - 1)}
      [] c = "age" -> {Num(MAX_AGE + 1)}
      [] c = "admission_date" -> {NaN, DateText(AdmissionDay)}
      [] c = "discharge_date" ->
            {DateText(AdmissionDay - 1), DateText(AdmissionDay),
             DateText(AdmissionDay + MAX_LOS_DAYS), DateText(AdmissionDay + MAX_LOS_DAYS + 1)}
      [] c = "length_of_stay" -> {Num(MAX_LOS_DAYS + 1)}
      [] c = "icd_code" -> {NaN, Str(<<"E", "1", "1">>), Str(<<" ", "e", "1", "1">>), Str(<<"1", "1">>)}
      [] c \in {"medication_name", "staff_name"} -> {NaN, Str(<<"a">>), Str(<<" ", "A">>)}
      [] c = "name" -> {NaN, Str(<<"a">>)}

AllValues(k) == UNION {Values(k, c) : c \in Columns(k)}

InputRows(k, cols) == {r \in [cols -> AllValues(k)] : \A c \in cols : r[c] \in Values(k, c)}

(* pd.read_csv: a column holding some text has dtype object, as has every  *)
(* column of a frame without rows                                          *)
read_csv_obj(cols, rows) ==
    {c \in cols : rows = <<>> \/ \E i \in DOMAIN rows : rows[i][c].k \in {"str", "date"}}

Frames(k) ==
    UNION {{[cols |-> cols, obj |-> read_csv_obj(cols, rows), rows |-> rows] :
               rows \in UNION {[1..n -> InputRows(k, cols)] : n \in 0..MaxRows}} :
           cols \in SUBSET Columns(k)}

---------------------------------------------------------------------------
(* The session: one dataset, one DataCleaner, one DataValidator *)

Calls == Len(cleaning_report) + Len(validation_results)

InitSession ==
    /\ arg = NoFrame
    /\ argBefore = NoFrame
    /\ aliased = FALSE
    /\ cleaning_report = <<>>
    /\ validation_results = <<>>
    /\ raised = "none"
    /\ report_text = NoReport
    /\ last = "init"

Init ==
    /\ kind \in Kinds
    /\ df \in Frames(kind)
    /\ InitSession
    /\ x = NaN
    /\ y = NaN

(* a cleaning call on the frame the caller holds; o is what the call does *)
Clean(o) ==
    /\ raised = "none"
    /\ Calls < MaxCalls
    /\ argBefore' = df
    /\ arg' = o.arg
    /\ aliased' = o.aliased
    /\ raised' = o.raised
    /\ df' = IF o.raised = "none" THEN o.ret ELSE o.arg
    /\ cleaning_report' =
          IF o.raised = "none" THEN Append(cleaning_report, o.entry) ELSE cleaning_report
    /\ report_text' = NoReport
    /\ last' = "clean"
    /\ UNCHANGED <<kind, validation_results, x, y>>

CleanPatients == kind = "patients" /\ Clean(clean_patients_data(df, NowDay))
CleanVisits == kind = "visits" /\ Clean(clean_visits_data(df))
CleanDiagnoses == kind = "diagnoses" /\ Clean(clean_diagnoses_data(df))
CleanMedications == kind = "medications" /\ Clean(clean_medications_data(df))
CleanStaff == kind = "staff" /\ Clean(clean_staff_data(df))

(* a validation call on the frame the caller holds *)
Validate(result) ==
    /\ raised = "none"
    /\ Calls < MaxCalls
    /\ validation_results' = Append(validation_results, result)
    /\ report_text' = NoReport
    /\ last' = "validate"
    /\ UNCHANGED <<kind, arg, argBefore, df, aliased, cleaning_report, raised, x, y>>

ValidatePatients == kind = "patients" /\ Validate(validate_patients(df))
ValidateVisits == kind = "visits" /\ Validate(validate_visits(df))
ValidateDiagnoses == kind = "diagnoses" /\ Validate(validate_diagnoses(df))

GenerateValidationReport ==
    /\ raised = "none"
    /\ last # "report"
    /\ LET g == generate_validation_report(validation_results)
       IN  /\ raised' = g.raised
           /\ report_text' = g.report
    /\ last' = "report"
    /\ UNCHANGED <<kind, arg, argBefore, df, aliased, cleaning_report, validation_results, x, y>>

Next ==
    \/ CleanPatients
    \/ CleanVisits
    \/ CleanDiagnoses
    \/ CleanMedications
    \/ CleanStaff
    \/ ValidatePatients
    \/ ValidateVisits
    \/ ValidateDiagnoses
    \/ GenerateValidationReport

Spec == Init /\ [][Next]_vars

---------------------------------------------------------------------------
(* validate_icd10_code as a function of one code: every text of at most    *)
(* MaxCodeLen characters over IcdAlphabet, and the missing value           *)

MaxCodeLen == 5
IcdAlphabet == {"E", "e", "1", ".", " ", "\n"}
IcdInputs == {NaN} \cup {Str(s) : s \in UNION {[1..n -> IcdAlphabet] : n \in 0..MaxCodeLen}}

InitIcd ==
    /\ kind = "icd"
    /\ df = NoFrame
    /\ InitSession
    /\ x \in IcdInputs
    /\ y = NaN

ValidateIcd10Code ==
    /\ last = "init"
    /\ y' = Bool(validate_icd10_code(x))
    /\ last' = "validate_icd10_code"
    /\ UNCHANGED <<kind, arg, argBefore, df, aliased, cleaning_report, validation_results,
                   raised, report_text, x>>

NextIcd == ValidateIcd10Code

SpecIcd == InitIcd /\ [][NextIcd]_vars

---------------------------------------------------------------------------
(* DataValidator.validate_referential_integrity: x holds the two frames,  *)
(* [patients, visits], y the result the call returned                      *)

(* Series.isin on one cell: a missing value is found among missing values *)
isin(c, rows, col) == \E j \in DOMAIN rows : rows[j][col] = c

(* the orphan count taken over distinct ids instead of rows *)
validate_referential_integrity_CountsIds(patients_df, visits_df) ==
    LET has == "patient_id" \in patients_df.cols /\ "patient_id" \in visits_df.cols
        absent == {i \in DOMAIN visits_df.rows :
                      ~isin(visits_df.rows[i].patient_id, patients_df.rows, "patient_id")}
        c1 == IF has
              THEN <<Check("visits_patient_id_exists", absent = {},
                           Cardinality({visits_df.rows[i].patient_id : i \in absent}))>>
              ELSE <<>>
    IN  [dataset |-> "referential_integrity", checks |-> c1]

validate_referential_integrity(patients_df, visits_df) ==
    LET has == "patient_id" \in patients_df.cols /\ "patient_id" \in visits_df.cols
        found == {i \in DOMAIN visits_df.rows :
                     isin(visits_df.rows[i].patient_id, patients_df.rows, "patient_id")}
        c1 == IF has
              THEN <<Check("visits_patient_id_exists", MaskAll(visits_df.rows, found),
                           MaskSum((DOMAIN visits_df.rows) \ found))>>
              ELSE <<>>
    IN  [dataset |-> "referential_integrity", checks |-> c1]

P1 == Str(<<"P", "1">>)
P2 == Str(<<"P", "2">>)
P3 == Str(<<"P", "3">>)

IdFrames(ids) ==
    UNION {{[cols |-> cols, obj |-> read_csv_obj(cols, rows), rows |-> rows] :
               rows \in UNION {[1..n -> [cols -> ids]] : n \in 0..MaxRows}} :
           cols \in SUBSET {"patient_id"}}

InitRef ==
    /\ kind = "referential_integrity"
    /\ df = NoFrame
    /\ InitSession
    /\ x \in [patients : IdFrames({P1, P2, NaN}), visits : IdFrames({P1, P3, NaN})]
    /\ y = NaN

ValidateReferentialIntegrity ==
    /\ raised = "none"
    /\ Calls < MaxCalls
    /\ LET result == validate_referential_integrity(x.patients, x.visits)
       IN  /\ validation_results' = Append(validation_results, result)
           /\ y' = result
    /\ report_text' = NoReport
    /\ last' = "validate"
    /\ UNCHANGED <<kind, arg, argBefore, df, aliased, cleaning_report, raised, x>>

NextRef ==
    \/ ValidateReferentialIntegrity
    \/ GenerateValidationReport

SpecRef == InitRef /\ [][NextRef]_vars

---------------------------------------------------------------------------
(* data_cleaner.py: get_cleaning_report.  pd.DataFrame(self.cleaning_report) *)
(* builds a new table with one row per entry; the list is only read.         *)

get_cleaning_report(report) == [i \in DOMAIN report |-> report[i]]

GetCleaningReport ==
    /\ raised = "none"
    /\ last # "get_cleaning_report"
    /\ y' = get_cleaning_report(cleaning_report)
    /\ last' = "get_cleaning_report"
    /\ UNCHANGED <<kind, arg, argBefore, df, aliased, cleaning_report, validation_results,
                   raised, report_text, x>>

InitReport ==
    /\ kind \in Kinds
    /\ df \in Frames(kind)
    /\ InitSession
    /\ x = NaN
    /\ y = <<>>

NextReport ==
    \/ CleanPatients
    \/ CleanVisits
    \/ CleanDiagnoses
    \/ CleanMedications
    \/ CleanStaff
    \/ GetCleaningReport

SpecReport == InitReport /\ [][NextReport]_vars

---------------------------------------------------------------------------
(* utils.py: detect_outliers_iqr.  Series.quantile skips missing values    *)
(* and interpolates linearly between the two order statistics around       *)
(* position (n - 1) * q; an empty series gives NaN.  The quartiles of      *)
(* integers are multiples of 1/4 and the multiplier is a multiple of 1/2,  *)
(* all exact in floating point, so quantile returns 4 times the quartile   *)
(* and the bounds are kept 8 times their value.                            *)

MaxSeriesLen == 3

RECURSIVE notna_values(_)
notna_values(series) ==
    IF series = <<>> THEN <<>>
    ELSE IF isna(Head(series)) THEN notna_values(Tail(series))
         ELSE <<Head(series).n>> \o notna_values(Tail(series))

RECURSIVE sort_values(_)
sort_values(s) ==
    IF s = <<>> THEN <<>>
    ELSE LET rest == sort_values(Tail(s))
             k == Cardinality({i \in DOMAIN rest : rest[i] <= Head(s)})
         IN  SubSeq(rest, 1, k) \o <<Head(s)>> \o SubSeq(rest, k + 1, Len(rest))

(* q4 is 4 * q; the result is Num(4 * quantile) *)
quantile(series, q4) ==
    LET v == sort_values(notna_values(series))
        h == q4 * (Len(v) - 1)
        lo == h \div 4
        frac == h % 4
    IN  IF v = <<>> THEN NaN
        ELSE IF frac = 0 THEN Num(4 * v[lo + 1])
             ELSE Num(4 * v[lo + 1] + frac * (v[lo + 2] - v[lo + 1]))

(* detect_outliers_iqr with the bounds themselves flagged *)
detect_outliers_iqr_Inclusive(series, multiplier2) ==
    LET q1 == quantile(series, 1)
        q3 == quantile(series, 3)
        iqr == q3.n - q1.n
        lower_bound == 2 * q1.n - multiplier2 * iqr
        upper_bound == 2 * q3.n + multiplier2 * iqr
    IN  [i \in DOMAIN series |->
            /\ ~isna(q1)
            /\ ~isna(series[i])
            /\ (8 * series[i].n <= lower_bound \/ 8 * series[i].n >= upper_bound)]

(* multiplier2 is 2 * multiplier *)
detect_outliers_iqr(series, multiplier2) ==
    LET q1 == quantile(series, 1)
        q3 == quantile(series, 3)
        iqr == q3.n - q1.n
        lower_bound == 2 * q1.n - multiplier2 * iqr
        upper_bound == 2 * q3.n + multiplier2 * iqr
    IN  [i \in DOMAIN series |->
            /\ ~isna(q1)
            /\ ~isna(series[i])
            /\ (8 * series[i].n < lower_bound \/ 8 * series[i].n > upper_bound)]

SeriesValues == {NaN, Num(0), Num(1), Num(2), Num(9)}

ExampleSeries ==
    <<Num(1), Num(2), Num(2), Num(3), Num(3), Num(3), Num(4), Num(4), Num(100)>>

SeriesInputs ==
    UNION {[1..n -> SeriesValues] : n \in 0..MaxSeriesLen} \cup {ExampleSeries}

InitOutliers ==
    /\ kind = "outliers"
    /\ df = NoFrame
    /\ InitSession
    /\ x \in [series : SeriesInputs, multiplier2 : {0, 3}]
    /\ y = NaN

DetectOutliersIqr ==
    /\ last = "init"
    /\ y' = detect_outliers_iqr(x.series, x.multiplier2)
    /\ argBefore' = x.series
    /\ arg' = x.series
    /\ last' = "detect_outliers_iqr"
    /\ UNCHANGED <<kind, df, aliased, cleaning_report, validation_results, raised,
                   report_text, x>>

NextOutliers == DetectOutliersIqr

SpecOutliers == InitOutliers /\ [][NextOutliers]_vars

---------------------------------------------------------------------------
(* utils.py: convert_to_snake_case and standardize_column_names *)

MaxNameLen == 3
MaxColumns == 2

(* \w and \s on the characters of the model *)
IsWord(c) == IsLetter(c) \/ c \in Digits \/ c = "_"
IsSpace(c) == c \in Spaces

(* re.sub(r'[^\w\s]', '', s) *)
RECURSIVE remove_special(_)
remove_special(s) ==
    IF s = <<>> THEN <<>>
    ELSE IF IsWord(Head(s)) \/ IsSpace(Head(s))
         THEN <<Head(s)>> \o remove_special(Tail(s))
         ELSE remove_special(Tail(s))

(* re.sub(r'\s+', '_', s): each maximal run of whitespace becomes one underscore *)
RECURSIVE spaces_to_underscore(_)
spaces_to_underscore(s) ==
    IF s = <<>> THEN <<>>
    ELSE IF IsSpace(Head(s))
         THEN (IF Len(s) > 1 /\ IsSpace(s[2]) THEN <<>> ELSE <<"_">>)
              \o spaces_to_underscore(Tail(s))
         ELSE <<Head(s)>> \o spaces_to_underscore(Tail(s))

(* re.sub(r'(?<!^)(?=[A-Z])', '_', s): an underscore before every upper-case *)
(* letter that is not the first character; i is the position of Head(s)      *)
RECURSIVE camel_to_snake(_, _)
camel_to_snake(s, i) ==
    IF s = <<>> THEN <<>>
    ELSE (IF i > 1 /\ IsUpper(Head(s)) THEN <<"_", Head(s)>> ELSE <<Head(s)>>)
         \o camel_to_snake(Tail(s), i + 1)

(* convert_to_snake_case without the final lower() *)
convert_to_snake_case_NoLower(column_name) ==
    camel_to_snake(spaces_to_underscore(remove_special(column_name)), 1)

convert_to_snake_case(column_name) ==
    lower(camel_to_snake(spaces_to_underscore(remove_special(column_name)), 1))

(* df.columns = [convert_to_snake_case(col) for col in df.columns] *)
standardize_column_names(columns) ==
    [i \in DOMAIN columns |-> convert_to_snake_case(columns[i])]

NameAlphabet == {"A", "B", "a", "1", "_", " ", "\t", "-"}

NameInputs == UNION {[1..n -> NameAlphabet] : n \in 0..MaxNameLen}

ColumnNames ==
    {<<"I", "D">>, <<"i", "d">>, <<"D", "o", "B">>, <<"a", " ", "b">>, <<"a", "_", "b">>,
     <<"a", ".", "b">>, <<"a", "B">>}

ColumnInputs == UNION {[1..n -> ColumnNames] : n \in 0..MaxColumns}

InitNames ==
    /\ df = NoFrame
    /\ InitSession
    /\ \/ kind = "column_name" /\ x \in NameInputs
       \/ kind = "columns" /\ x \in ColumnInputs
    /\ y = <<>>

ConvertToSnakeCase ==
    /\ kind = "column_name"
    /\ last = "init"
    /\ y' = convert_to_snake_case(x)
    /\ last' = "convert_to_snake_case"
    /\ UNCHANGED <<kind, arg, argBefore, df, aliased, cleaning_report, validation_results,
                   raised, report_text, x>>

StandardizeColumnNames ==
    /\ kind = "columns"
    /\ last = "init"
    /\ y' = standardize_column_names(x)
    /\ last' = "standardize_column_names"
    /\ UNCHANGED <<kind, arg, argBefore, df, aliased, cleaning_report, validation_results,
                   raised, report_text, x>>

NextNames == ConvertToSnakeCase \/ StandardizeColumnNames

SpecNames == InitNames /\ [][NextNames]_vars

---------------------------------------------------------------------------
(* clean_visits_data on two visit sets that differ only in the values of    *)
(* their length_of_stay column, each cleaned by a DataCleaner of its own    *)

RawLos == {Num(MIN_LOS_DAYS), Num(MAX_LOS_DAYS + 1)}

WithLos(cols, base, los) ==
    LET rows == [i \in DOMAIN base |->
                    [c \in cols \cup {"length_of_stay"} |->
                        IF c = "length_of_stay" THEN los[i] ELSE base[i][c]]]
    IN  [cols |-> cols \cup {"length_of_stay"},
         obj |-> read_csv_obj(cols \cup {"length_of_stay"}, rows),
         rows |-> rows]

InitLos ==
    /\ kind = "visits_pair"
    /\ df = NoFrame
    /\ InitSession
    /\ \E cols \in SUBSET (Columns("visits") \ {"length_of_stay"}) :
          \E n \in 0..MaxRows :
              \E base \in [1..n -> InputRows("visits", cols)] :
                  \E los_a \in [1..n -> RawLos] :
                      \E los_b \in [1..n -> RawLos] :
                          x = [a |-> WithLos(cols, base, los_a), b |-> WithLos(cols, base, los_b)]
    /\ y = [a |-> NoFrame, b |-> NoFrame]

CleanVisitsPair ==
    /\ last = "init"
    /\ y' = [a |-> clean_visits_data(x.a).ret, b |-> clean_visits_data(x.b).ret]
    /\ last' = "clean"
    /\ UNCHANGED <<kind, arg, argBefore, df, aliased, cleaning_report, validation_results,
                   raised, report_text, x>>

NextLos == CleanVisitsPair

SpecLos == InitLos /\ [][NextLos]_vars

---------------------------------------------------------------------------
(* Properties *)

(* df is the return value of a completed cleaning call *)
Cleaned == cleaning_report # <<>> /\ raised = "none"

HasDates(f) == {"admission_date", "discharge_date"} \subseteq f.cols

(* C1: every row returned by clean_visits_data has admission_date <=       *)
(* discharge_date, length_of_stay equal to the whole days between them,    *)
(* and 0 <= length_of_stay <= 365, also for inputs with missing dates.     *)
C1_CleanedVisitsRows ==
    (Cleaned /\ kind = "visits" /\ HasDates(df)) =>
        \A i \in DOMAIN df.rows :
            LET r == df.rows[i]
            IN  /\ r.admission_date.k = "ts"
                /\ r.discharge_date.k = "ts"
                /\ r.admission_date.n <= r.discharge_date.n
                /\ r.length_of_stay = Num(r.discharge_date.n - r.admission_date.n)
                /\ r.length_of_stay.n >= MIN_LOS_DAYS
                /\ r.length_of_stay.n <= MAX_LOS_DAYS

(* C2: no exception propagates out of a cleaning or a validation call,     *)
(* whatever cells of the input are malformed or missing.                   *)
C2_NoExceptionPropagates ==
    last \in {"clean", "validate"} => raised = "none"

CaseInsensitiveGender(c) ==
    IF c.k # "str" THEN Unknown
    ELSE IF lower(c.s) \in {<<"m">>, <<"m", "a", "l", "e">>} THEN Male
    ELSE IF lower(c.s) \in {<<"f">>, <<"f", "e", "m", "a", "l", "e">>} THEN Female
    ELSE IF lower(c.s) \in {<<"o">>, <<"o", "t", "h", "e", "r">>} THEN Other
    ELSE Unknown

(* C4: gender standardization is case-insensitive: every case variant of   *)
(* m/male gives "Male" (so does "Male"), of f/female "Female", of o/other  *)
(* "Other", and every other or missing value gives "Unknown".              *)
C4_GenderCaseInsensitive ==
    (last = "clean" /\ kind = "patients" /\ "gender" \in arg.cols) =>
        \A i \in DOMAIN arg.rows :
            arg.rows[i].gender = CaseInsensitiveGender(argBefore.rows[i].gender)

(* C5: generate_validation_report with zero checks in total does not fail  *)
(* with a division by zero.                                                *)
C5_ZeroChecksReport ==
    (last = "report" /\ total_checks(validation_results) = 0) => raised = "none"

(* C6: a failed check states the number of rows that violate its rule, so  *)
(* it never reports 0 offending rows.                                      *)
C6_FailedCheckCounts ==
    \A i \in DOMAIN validation_results :
        \A j \in DOMAIN validation_results[i].checks :
            LET c == validation_results[i].checks[j]
            IN  ~c.passed => c.message.found > 0

(* C7: validate_icd10_code returns true exactly when the trimmed,          *)
(* upper-cased code matches the ICD-10 pattern, and false for a missing    *)
(* code.                                                                   *)
C7_IcdOnNormalizedCode ==
    last = "validate_icd10_code" =>
        y = Bool(~isna(x) /\ ICD10_FULL(upper(strip(x.s))))

(* C8: after a cleaning call returns, the record set the caller passed in  *)
(* has the same rows, columns and cell values as before the call.          *)
C8_InputUnchanged ==
    (last = "clean" /\ raised = "none") => arg = argBefore

(* C9: applying a cleaning operation again to its own output appends a     *)
(* report entry with removed_rows = 0.                                     *)
C9_SecondPassRemovesNothing ==
    \A i \in DOMAIN cleaning_report : i >= 2 => cleaning_report[i].removed_rows = 0

(* a second pass ran on the output of a first pass that removed rows and   *)
(* kept some                                                               *)
C9_Witness ==
    /\ Len(cleaning_report) = 2
    /\ raised = "none"
    /\ cleaning_report[1].removed_rows > 0
    /\ cleaning_report[2].initial_rows > 0
    /\ cleaning_report[2].final_rows = cleaning_report[2].initial_rows

normalize_icd(c) == str_upper(str_strip(astype_str(c)))

(* C10: cleaned patients have no two rows with the same patient_id,        *)
(* cleaned visits none with the same visit_id, cleaned diagnoses none with *)
(* the same (visit_id, icd_code), the code compared trimmed and            *)
(* upper-cased.                                                            *)
C10_UniqueAfterCleaning ==
    Cleaned =>
        /\ (kind = "patients" /\ "patient_id" \in df.cols) =>
               \A i, j \in DOMAIN df.rows :
                   df.rows[i].patient_id = df.rows[j].patient_id => i = j
        /\ (kind = "visits" /\ "visit_id" \in df.cols) =>
               \A i, j \in DOMAIN df.rows :
                   df.rows[i].visit_id = df.rows[j].visit_id => i = j
        /\ (kind = "diagnoses" /\ {"visit_id", "icd_code"} \subseteq df.cols) =>
               \A i, j \in DOMAIN df.rows :
                   (/\ df.rows[i].visit_id = df.rows[j].visit_id
                    /\ normalize_icd(df.rows[i].icd_code) = normalize_icd(df.rows[j].icd_code))
                       => i = j

(* a diagnoses pass removed a row whose code differed from an earlier one  *)
(* only by case and surrounding blanks, and returned the earlier one       *)
C10_Witness ==
    /\ Cleaned /\ kind = "diagnoses"
    /\ {"visit_id", "icd_code"} \subseteq df.cols
    /\ Len(cleaning_report) = 1
    /\ cleaning_report[1].removed_rows > 0
    /\ argBefore.rows[1].icd_code # argBefore.rows[2].icd_code
    /\ df.rows # <<>>

(* C11: validate_referential_integrity passes exactly when every           *)
(* patient_id of the visits set occurs in the patients set's patient_id    *)
(* column, and a failure states the exact number of visit rows whose       *)
(* patient_id is absent from patients.                                     *)
C11_ReferentialIntegrity ==
    (kind = "referential_integrity" /\ last = "validate"
     /\ "patient_id" \in x.patients.cols /\ "patient_id" \in x.visits.cols) =>
        LET ids == {x.patients.rows[j].patient_id : j \in DOMAIN x.patients.rows}
            orphans == {i \in DOMAIN x.visits.rows : x.visits.rows[i].patient_id \notin ids}
        IN  /\ Len(y.checks) = 1
            /\ y.checks[1].test = "visits_patient_id_exists"
            /\ y.checks[1].passed = (orphans = {})
            /\ ~y.checks[1].passed => y.checks[1].message.found = Cardinality(orphans)

(* patients = {P1, P2}, visits refer to P1 and P3: the check failed with 1 *)
C11_Witness ==
    /\ kind = "referential_integrity" /\ last = "validate"
    /\ x.patients.rows = <<[patient_id |-> P1], [patient_id |-> P2]>>
    /\ x.visits.rows = <<[patient_id |-> P1], [patient_id |-> P3]>>
    /\ ~y.checks[1].passed
    /\ y.checks[1].message.found = 1

(* C12: cleaning_report holds one entry per completed cleaning call, in    *)
(* call order: a cleaning call that returns appends exactly one entry      *)
(* naming its dataset and its row counts before and after, every other     *)
(* step (a cleaning call that raises, get_cleaning_report) leaves the list *)
(* as it was, and every entry has removed_rows = initial_rows - final_rows *)
(* and removed_rows >= 0.                                                  *)
C12_ReportEntries ==
    /\ [](\A i \in DOMAIN cleaning_report :
             /\ cleaning_report[i].removed_rows =
                    cleaning_report[i].initial_rows - cleaning_report[i].final_rows
             /\ cleaning_report[i].removed_rows >= 0)
    /\ [][IF last' = "clean" /\ raised' = "none"
          THEN /\ Len(cleaning_report') = Len(cleaning_report) + 1
               /\ SubSeq(cleaning_report', 1, Len(cleaning_report)) = cleaning_report
               /\ cleaning_report'[Len(cleaning_report')].dataset = kind
               /\ cleaning_report'[Len(cleaning_report')].initial_rows = Len(df.rows)
               /\ cleaning_report'[Len(cleaning_report')].final_rows = Len(df'.rows)
          ELSE cleaning_report' = cleaning_report]_vars

(* two cleaning calls completed, the first removed a row, and the report   *)
(* read afterwards shows both entries                                      *)
C12_Witness ==
    /\ last = "get_cleaning_report"
    /\ Len(cleaning_report) = 2
    /\ cleaning_report[1].removed_rows > 0
    /\ y = cleaning_report

(* the row clean_diagnoses_data is to return for input row r: the code     *)
(* trimmed and upper-cased, the flag the pattern's verdict on that code    *)
(* (false for a missing code), every other column as it was                *)
FlaggedDiagnosis(r, cols) ==
    [c \in cols \cup {"icd_code_valid"} |->
        IF c = "icd_code" THEN normalize_icd(r.icd_code)
        ELSE IF c = "icd_code_valid"
             THEN Bool(~isna(r.icd_code) /\ ICD10_FULL(upper(strip(r.icd_code.s))))
             ELSE r[c]]

(* C13: clean_diagnoses_data returns the input rows in order, each with    *)
(* its code trimmed and upper-cased and with icd_code_valid equal to the   *)
(* ICD-10 pattern's verdict on that code (false for a malformed or missing *)
(* code), less exactly the rows that repeat the (visit_id, normalized      *)
(* icd_code) pair of an earlier row; no row is removed for an invalid code.*)
C13_InvalidCodesFlaggedNotDropped ==
    (Cleaned /\ kind = "diagnoses") =>
        LET rows == argBefore.rows
            both == {"visit_id", "icd_code"} \subseteq argBefore.cols
            later == {i \in DOMAIN rows :
                         /\ both
                         /\ \E j \in 1..(i - 1) :
                               /\ rows[j].visit_id = rows[i].visit_id
                               /\ normalize_icd(rows[j].icd_code) = normalize_icd(rows[i].icd_code)}
            flagged == [i \in DOMAIN rows |->
                           IF "icd_code" \in argBefore.cols
                           THEN FlaggedDiagnosis(rows[i], argBefore.cols)
                           ELSE rows[i]]
        IN  df.rows = Filter(flagged, (DOMAIN rows) \ later)

(* a diagnoses pass returned both of its rows: the first, whose code was   *)
(* missing, flagged invalid, the second flagged valid                      *)
C13_Witness ==
    /\ Cleaned /\ kind = "diagnoses"
    /\ {"visit_id", "icd_code"} \subseteq df.cols
    /\ Len(argBefore.rows) = 2
    /\ Len(df.rows) = 2
    /\ argBefore.rows[1].icd_code = NaN
    /\ df.rows[1].icd_code_valid = Bool(FALSE)
    /\ df.rows[2].icd_code_valid = Bool(TRUE)

(* the columns whose absence switches off every row-removing step of a     *)
(* cleaning operation are absent                                           *)
NoRemovingStep(k, cols) ==
    CASE k = "patients" -> cols \cap {"date_of_birth", "patient_id"} = {}
      [] k = "visits" -> "visit_id" \notin cols
                         /\ ~({"admission_date", "discharge_date"} \subseteq cols)
      [] k = "diagnoses" -> ~({"visit_id", "icd_code"} \subseteq cols)
      [] k = "medications" -> cols \cap {"visit_id", "medication_name"} = {}
      [] k = "staff" -> "staff_id" \notin cols

Emit(present, test) == IF present THEN <<test>> ELSE <<>>

(* the checks of a validator group whose own columns are present, in order *)
ExpectedChecks(k, cols) ==
    CASE k = "patients" ->
            Emit("patient_id" \in cols, "unique_patient_id")
            \o Emit("age" \in cols, "valid_age_range")
            \o Emit("patient_id" \in cols, "no_missing_patient_id")
      [] k = "visits" ->
            Emit("visit_id" \in cols, "unique_visit_id")
            \o Emit({"admission_date", "discharge_date"} \subseteq cols,
                    "discharge_after_admission")
            \o Emit("length_of_stay" \in cols, "valid_length_of_stay")
      [] k = "diagnoses" ->
            Emit("icd_code" \in cols, "valid_icd10_format")
            \o Emit("visit_id" \in cols, "no_missing_visit_id")

C14_CleanerReturns == last = "clean" => raised = "none" /\ cleaning_report # <<>>

C14_CleanerSkips ==
    (last = "clean" /\ raised = "none" /\ NoRemovingStep(kind, argBefore.cols)) =>
        cleaning_report[Len(cleaning_report)].removed_rows = 0

C14_ValidatorChecks ==
    last = "validate" =>
        /\ raised = "none"
        /\ validation_results # <<>>
        /\ LET result == validation_results[Len(validation_results)]
           IN  [i \in DOMAIN result.checks |-> result.checks[i].test]
                   = ExpectedChecks(kind, df.cols)

(* C14: whichever referenced columns the input lacks, a cleaning call      *)
(* returns normally and appends its report entry, removing no rows when    *)
(* the columns of its row-removing steps are absent, and a validation call *)
(* returns normally and appends a result holding exactly the checks whose  *)
(* own columns are present.                                                *)
C14_MissingColumnsNeverAnError ==
    C14_CleanerReturns /\ C14_CleanerSkips /\ C14_ValidatorChecks

(* the k-th smallest (k from 0) of the present values of series            *)
OrderStatistic(series, k) ==
    LET present == {i \in DOMAIN series : ~isna(series[i])}
    IN  CHOOSE v \in {series[i].n : i \in present} :
            /\ Cardinality({i \in present : series[i].n < v}) <= k
            /\ Cardinality({i \in present : series[i].n <= v}) > k

(* 4 times the percentile 25 * q4 of series by linear interpolation        *)
Percentile4(series, q4) ==
    LET n == Cardinality({i \in DOMAIN series : ~isna(series[i])})
        lo == (q4 * (n - 1)) \div 4
        frac == (q4 * (n - 1)) % 4
    IN  (4 - frac) * OrderStatistic(series, lo)
        + (IF frac = 0 THEN 0 ELSE frac * OrderStatistic(series, lo + 1))

(* C15: detect_outliers_iqr marks exactly the values strictly below        *)
(* Q1 - multiplier * IQR or strictly above Q3 + multiplier * IQR, Q1 and   *)
(* Q3 the 25th and 75th percentiles by linear interpolation, and leaves    *)
(* its input as it was; for [1,2,2,3,3,3,4,4,100] and multiplier 1.5 it    *)
(* marks exactly the value 100.                                            *)
C15_OutlierMask ==
    (kind = "outliers" /\ last = "detect_outliers_iqr") =>
        /\ arg = argBefore
        /\ DOMAIN y = DOMAIN x.series
        /\ (\E i \in DOMAIN x.series : ~isna(x.series[i])) =>
              LET Q1 == Percentile4(x.series, 1)
                  Q3 == Percentile4(x.series, 3)
                  IQR == Q3 - Q1
              IN  \A i \in DOMAIN x.series :
                      y[i] = (/\ ~isna(x.series[i])
                              /\ \/ 8 * x.series[i].n < 2 * Q1 - x.multiplier2 * IQR
                                 \/ 8 * x.series[i].n > 2 * Q3 + x.multiplier2 * IQR)
        /\ (x.series = ExampleSeries /\ x.multiplier2 = 3) =>
              \A i \in DOMAIN y : y[i] = (x.series[i] = Num(100))

(* the mask of the example series marks its last value                     *)
C15_Witness ==
    /\ kind = "outliers" /\ last = "detect_outliers_iqr"
    /\ x.series = ExampleSeries /\ x.multiplier2 = 3
    /\ y[9]
    /\ ~y[8]

(* lower-case letters, digits and the underscore only *)
Canonical(s) == \A i \in DOMAIN s : IsLower(s[i]) \/ s[i] \in Digits \/ s[i] = "_"

(* C16: the result of convert_to_snake_case holds no upper-case letter, no *)
(* whitespace and no punctuation other than the underscore, and converting *)
(* it again returns it unchanged; standardize_column_names returns as many *)
(* columns as it was given, the i-th the conversion of the i-th.           *)
C16_CanonicalNames ==
    /\ (kind = "column_name" /\ last = "convert_to_snake_case") =>
          /\ Canonical(y)
          /\ convert_to_snake_case(y) = y
    /\ (kind = "columns" /\ last = "standardize_column_names") =>
          /\ Len(y) = Len(x)
          /\ \A i \in DOMAIN x :
                /\ Canonical(y[i])
                /\ y[i] = convert_to_snake_case(x[i])

(* "A-B" became "a_b": the hyphen dropped, an underscore put before B      *)
C16_Witness ==
    /\ kind = "column_name" /\ last = "convert_to_snake_case"
    /\ x = <<"A", "-", "B">>
    /\ y = <<"a", "_", "b">>

(* returned row out is input row in as clean_patients_data rewrites it:    *)
(* gender standardized, date_of_birth parsed                               *)
SamePatientRecord(out, in, cols) ==
    /\ "gender" \in cols => out.gender = fillna(gender_mapping(in.gender), Unknown)
    /\ "date_of_birth" \in cols => out.date_of_birth = to_datetime(in.date_of_birth)

(* the date-of-birth and age filters keep input row r                      *)
PassesFilters(r, cols) ==
    "date_of_birth" \in cols =>
        /\ to_datetime(r.date_of_birth).k = "ts"
        /\ to_datetime(r.date_of_birth).n <= NowDay
        /\ between(calculate_age(to_datetime(r.date_of_birth), NowDay), MIN_AGE, MAX_AGE)

(* C17 as stated: every row returned by clean_patients_data is the         *)
(* earliest input row carrying its patient_id, also when the filters act   *)
(* on that earliest row.                                                   *)
C17_Original ==
    (Cleaned /\ kind = "patients" /\ "patient_id" \in argBefore.cols) =>
        \A k \in DOMAIN df.rows :
            LET same == {i \in DOMAIN argBefore.rows :
                            argBefore.rows[i].patient_id = df.rows[k].patient_id}
                first == CHOOSE i \in same : \A j \in same : i <= j
            IN  ~isna(df.rows[k].patient_id) =>
                    (same # {}
                     /\ SamePatientRecord(df.rows[k], argBefore.rows[first], argBefore.cols))

(* C17 amended: every row returned by clean_patients_data is the earliest  *)
(* of the input rows carrying its patient_id that pass the date-of-birth   *)
(* and age filters, and every patient_id of such a row is returned.        *)
C17_FirstSurvivingRowKept ==
    (Cleaned /\ kind = "patients" /\ "patient_id" \in argBefore.cols) =>
        LET passing == {i \in DOMAIN argBefore.rows :
                           PassesFilters(argBefore.rows[i], argBefore.cols)}
        IN  /\ \A k \in DOMAIN df.rows :
                   LET same == {i \in passing :
                                   argBefore.rows[i].patient_id = df.rows[k].patient_id}
                       first == CHOOSE i \in same : \A j \in same : i <= j
                   IN  same # {}
                       /\ SamePatientRecord(df.rows[k], argBefore.rows[first], argBefore.cols)
            /\ \A i \in passing :
                   \E k \in DOMAIN df.rows :
                       df.rows[k].patient_id = argBefore.rows[i].patient_id

(* the earliest row of a patient_id was born in the future and was removed *)
(* by the filter; the later row with that id was the one returned          *)
C17_Witness ==
    /\ Cleaned /\ kind = "patients"
    /\ {"patient_id", "date_of_birth"} \subseteq argBefore.cols
    /\ Len(argBefore.rows) = 2
    /\ argBefore.rows[1].patient_id = argBefore.rows[2].patient_id
    /\ argBefore.rows[1].date_of_birth = DateText(NowDay + 1)
    /\ Len(df.rows) = 1
    /\ df.rows[1].date_of_birth = Ts(NowDay - MaxAgeDays)

(* the length_of_stay of a returned row is the difference of its dates      *)
RecomputedLos(f) ==
    \A i \in DOMAIN f.rows :
        f.rows[i].length_of_stay =
            IF f.rows[i].admission_date.k = "ts" /\ f.rows[i].discharge_date.k = "ts"
            THEN Num(f.rows[i].discharge_date.n - f.rows[i].admission_date.n)
            ELSE NaN

(* C18 as stated: two inputs that differ only in their length_of_stay      *)
(* values give the same surviving rows with the same length_of_stay, which *)
(* is the recomputed date difference, whatever columns the inputs have.    *)
C18_Original ==
    (kind = "visits_pair" /\ last = "clean") =>
        /\ y.a.rows = y.b.rows
        /\ HasDates(x.a) => RecomputedLos(y.a) /\ RecomputedLos(y.b)

(* C18 amended: when the inputs have both date columns, two inputs that    *)
(* differ only in their length_of_stay values give the same surviving rows *)
(* with the same length_of_stay, the difference of the row's dates in days *)
(* (missing when a date is missing).                                       *)
C18_RawLosIgnoredWithDates ==
    (kind = "visits_pair" /\ last = "clean" /\ HasDates(x.a)) =>
        /\ y.a.rows = y.b.rows
        /\ RecomputedLos(y.a)
        /\ RecomputedLos(y.b)

(* the two inputs carried different raw lengths of stay for a row with     *)
(* both dates; both outputs hold that row with the recomputed value        *)
C18_Witness ==
    /\ kind = "visits_pair" /\ last = "clean" /\ HasDates(x.a)
    /\ Len(x.a.rows) = 1
    /\ x.a.rows[1].length_of_stay = Num(MAX_LOS_DAYS + 1)
    /\ x.b.rows[1].length_of_stay = Num(MIN_LOS_DAYS)
    /\ Len(y.a.rows) = 1
    /\ y.a.rows[1].length_of_stay = Num(MAX_LOS_DAYS)
    /\ y.b.rows[1].length_of_stay = Num(MAX_LOS_DAYS)

(* C19: validate_patients on what clean_patients_data returned, and        *)
(* validate_visits on what clean_visits_data returned, report every        *)
(* emitted check as passed; stated for the inputs that have every column   *)
(* the cleaner and the validator refer to.                                 *)
C19_ValidatorAcceptsCleaned ==
    (Cleaned /\ last = "validate" /\ kind \in {"patients", "visits"}
     /\ argBefore.cols = Columns(kind)) =>
        LET result == validation_results[Len(validation_results)]
        IN  \A i \in DOMAIN result.checks : result.checks[i].passed

(* C20: clean_patients_data applied to its own output leaves the gender of *)
(* every row as the first pass wrote it.                                   *)
C20_RecleaningPreservesGender ==
    (Cleaned /\ kind = "patients" /\ last = "clean" /\ Len(cleaning_report) = 2
     /\ "gender" \in argBefore.cols) =>
        /\ Len(df.rows) = Len(argBefore.rows)
        /\ \A i \in DOMAIN df.rows : df.rows[i].gender = argBefore.rows[i].gender

(* C21: standardize_column_names given pairwise distinct column names      *)
(* returns pairwise distinct names: no two different headers become the    *)
(* same canonical name.                                                    *)
C21_DistinctNamesStayDistinct ==
    (kind = "columns" /\ last = "standardize_column_names"
     /\ \A i, j \in DOMAIN x : x[i] = x[j] => i = j) =>
        \A i, j \in DOMAIN y : y[i] = y[j] => i = j

====
